---- MODULE Spec2Model ----
(***************************************************************************)
(* powershell-script: a builder produces a PsScript; PsScript::run locates *)
(* the interpreter, spawns it with three pipes, streams the script to its  *)
(* stdin line by line, waits for it and classifies the captured output.    *)
(* The child interpreter runs concurrently with the parent and is coupled  *)
(* to it only through the three pipes.                                     *)
(***************************************************************************)
EXTENDS Integers, Sequences, FiniteSets, TLC

(***************************************************************************)
(* Bounds of the model.                                                    *)
(***************************************************************************)
MaxScriptLen == 2       \* characters in a script
StdinCap == 1           \* bytes the child's stdin pipe buffers
StdoutCap == 1          \* bytes the child's stdout pipe buffers
StderrCap == 1          \* bytes the child's stderr pipe buffers
MaxOutPerLine == 2      \* bytes the child writes to stdout per command
MaxErrPerLine == 1      \* bytes the child writes to stderr per command
MaxCaptureLen == 2      \* bytes in a capture handed to Output (SpecOutput)
MaxPathLen == 3         \* characters in a value of PATH (SpecLocate)

(***************************************************************************)
(* Characters, strings (sequences of characters) and Option values.        *)
(***************************************************************************)
LF == "\n"
CR == "\r"
ScriptChars == {"a", CR, LF}

None == << >>
Some(x) == << x >>
IsSome(o) == Len(o) = 1
unwrap(o) == o[1]

RECURSIVE StringsUpTo(_, _)
StringsUpTo(chars, n) ==
    IF n = 0 THEN { << >> }
    ELSE LET shorter == StringsUpTo(chars, n - 1)
         IN  shorter \cup { Append(s, c) : s \in shorter, c \in chars }

Scripts == StringsUpTo(ScriptChars, MaxScriptLen)

\* index of the first occurrence of c in s, 0 when there is none
find(s, c) ==
    IF \E i \in 1..Len(s) : s[i] = c
    THEN CHOOSE i \in 1..Len(s) : s[i] = c /\ \A j \in 1..(i - 1) : s[j] # c
    ELSE 0

\* str::split(char): the pieces between separators, separators removed
RECURSIVE split(_, _)
split(s, sep) ==
    LET idx == find(s, sep)
    IN  IF idx = 0 THEN << s >>
        ELSE << SubSeq(s, 1, idx - 1) >> \o split(SubSeq(s, idx + 1, Len(s)), sep)

\* str::split_inclusive('\n'): pieces keep their terminator, no empty last piece
RECURSIVE split_inclusive(_)
split_inclusive(s) ==
    IF s = << >> THEN << >>
    ELSE LET idx == find(s, LF)
         IN  IF idx = 0 THEN << s >>
             ELSE << SubSeq(s, 1, idx) >> \o split_inclusive(SubSeq(s, idx + 1, Len(s)))

strip_suffix(s, c) ==
    IF Len(s) > 0 /\ s[Len(s)] = c THEN Some(SubSeq(s, 1, Len(s) - 1)) ELSE None

\* str::lines(): split_inclusive('\n'), then strip "\n" and, only then, "\r"
lines_map(piece) ==
    LET noLf == strip_suffix(piece, LF)
    IN  IF ~IsSome(noLf) THEN piece
        ELSE LET noCr == strip_suffix(unwrap(noLf), CR)
             IN  IF ~IsSome(noCr) THEN unwrap(noLf) ELSE unwrap(noCr)

lines(s) ==
    LET pieces == split_inclusive(s)
    IN  [i \in 1..Len(pieces) |-> lines_map(pieces[i])]

\* a writeln that ends the line with "\r\n"
writeln_crlf(line) == line \o << CR, LF >>

\* writeln!(stdin, "{}", line): the bytes of the line, then one newline
writeln(line) == line \o << LF >>

(***************************************************************************)
(* Platform constants.                                                     *)
(***************************************************************************)
\* the two targets, each in its default build (feature "core" off)
Platforms == {"unix", "windows"}
PATH_SPLITTER(plat) == IF plat = "windows" THEN ";" ELSE ":"
POWERSHELL_NAME(plat) == IF plat = "windows" THEN "PowerShell" ELSE "pwsh"
FALLBACK == "System32\\WindowsPowerShell\\v1.0\\powershell.exe"

\* values of the PATH variable and the file system entries the runs are tried on
PathValues(plat) == { << "d" >>, << "d", PATH_SPLITTER(plat), "e" >> }
RootValues == { "C" }
join(dir, file) == << dir, file >>

(***************************************************************************)
(* Builder.                                                                *)
(***************************************************************************)
push_front(args, x) == << x >> \o args
push_back(args, x) == Append(args, x)

\* impl Default for PsScriptBuilder
default ==
    [ args            |-> push_back(push_back(<< >>, "-Command"), "-"),
      no_profile      |-> TRUE,
      non_interactive |-> TRUE,
      hidden          |-> TRUE,
      print_commands  |-> FALSE ]

\* a build that pushes the two flags in the other order
build_flags_swapped(self) ==
    LET args1 == IF self.no_profile
                 THEN push_front(self.args, "-NoProfile") ELSE self.args
        args2 == IF self.non_interactive
                 THEN push_front(args1, "-NonInteractive") ELSE args1
    IN  [ args |-> args2, hidden |-> self.hidden, print_commands |-> self.print_commands ]

\* PsScriptBuilder::build
build(self) ==
    LET args1 == IF self.non_interactive
                 THEN push_front(self.args, "-NonInteractive") ELSE self.args
        args2 == IF self.no_profile
                 THEN push_front(args1, "-NoProfile") ELSE args1
    IN  [ args |-> args2, hidden |-> self.hidden, print_commands |-> self.print_commands ]

(***************************************************************************)
(* Output (output.rs).                                                     *)
(***************************************************************************)
REPLACEMENT == 65533    \* U+FFFD

IsCont(b) == b >= 128 /\ b <= 191

\* String::from_utf8_lossy on the modelled bytes: ASCII, the two-byte lead
\* 0xC3 followed by a continuation byte, anything else is replaced by U+FFFD
RECURSIVE from_utf8_lossy(_)
from_utf8_lossy(bytes) ==
    IF bytes = << >> THEN << >>
    ELSE LET b == Head(bytes)
         IN  IF b < 128 THEN << b >> \o from_utf8_lossy(Tail(bytes))
             ELSE IF b = 195 /\ Len(bytes) >= 2 /\ IsCont(bytes[2])
                  THEN << (b % 32) * 64 + (bytes[2] % 64) >>
                       \o from_utf8_lossy(Tail(Tail(bytes)))
                  ELSE << REPLACEMENT >> \o from_utf8_lossy(Tail(bytes))

\* ExitStatus::success
status_success(status) == status = 0

\* impl From<process::Output> for Output
Output_from(proc_output) ==
    [ inner |-> proc_output, success |-> status_success(proc_output.status) ]

\* a stdout() that does not test for the empty capture
Output_stdout_always_some(self) == Some(from_utf8_lossy(self.inner.stdout))

\* Output::stdout
Output_stdout(self) ==
    IF self.inner.stdout = << >> THEN None
    ELSE Some(from_utf8_lossy(self.inner.stdout))

\* Output::stderr
Output_stderr(self) ==
    IF self.inner.stderr = << >> THEN None
    ELSE Some(from_utf8_lossy(self.inner.stderr))

\* impl fmt::Display for Output
Output_fmt(self) ==
    (IF IsSome(Output_stdout(self)) THEN unwrap(Output_stdout(self)) ELSE << >>)
    \o (IF IsSome(Output_stderr(self)) THEN unwrap(Output_stderr(self)) ELSE << >>)

\* a run that does not look at the exit status
run_ignores_status(proc_output) ==
    [ kind |-> "Ok", output |-> Some(Output_from(proc_output)) ]

\* PsScript::run, after run_raw returned Ok(proc_output)
run(proc_output) ==
    LET output == Output_from(proc_output)
    IN  IF output.success
        THEN [ kind |-> "Ok", output |-> Some(output) ]
        ELSE [ kind |-> "Powershell", output |-> Some(output) ]

Err(kind) == [ kind |-> kind, output |-> None ]
NoResult == [ kind |-> "None", output |-> None ]

(***************************************************************************)
(* Interpreter locator (target/unix.rs, target/windows.rs).                *)
(***************************************************************************)
Ok(val) == [ tag |-> "Ok", val |-> val ]
Fail(err) == [ tag |-> "Err", val |-> err ]
Panic == [ tag |-> "Panic", val |-> "unwrap on None" ]

exists(files, path) == path \in files

\* is_program_on_path: None when PATH is not set, else whether some PATH
\* directory holds an entry of that name
is_program_on_path(plat, path_var, files, program_name) ==
    IF ~IsSome(path_var) THEN None
    ELSE LET dirs == split(unwrap(path_var), PATH_SPLITTER(plat))
         IN  Some(\E i \in 1..Len(dirs) : exists(files, join(dirs[i], program_name)))

\* target/unix.rs get_powershell_path
get_powershell_path_unix(path_var, files) ==
    LET on_path == is_program_on_path("unix", path_var, files, POWERSHELL_NAME("unix"))
    IN  IF ~IsSome(on_path) THEN Panic
        ELSE IF unwrap(on_path) THEN Ok(join(<< >>, POWERSHELL_NAME("unix")))
        ELSE Fail("PowershellNotFound")

\* target/windows.rs get_powershell_path
get_powershell_path_windows(path_var, root_var, files) ==
    LET on_path == is_program_on_path("windows", path_var, files, POWERSHELL_NAME("windows"))
    IN  IF ~IsSome(on_path) THEN Panic
        ELSE IF unwrap(on_path) THEN Ok(join(<< >>, POWERSHELL_NAME("windows")))
        ELSE IF ~IsSome(root_var) THEN Fail("PowershellNotFound")
        ELSE IF exists(files, join(unwrap(root_var), FALLBACK))
             THEN Ok(join(unwrap(root_var), FALLBACK))
             ELSE Fail("PowershellNotFound")

get_powershell_path(plat, path_var, root_var, files) ==
    IF plat = "windows" THEN get_powershell_path_windows(path_var, root_var, files)
    ELSE get_powershell_path_unix(path_var, files)

(***************************************************************************)
(* State.                                                                  *)
(***************************************************************************)
VARIABLES
    platform,       \* build target
    pathVar,        \* Option: value of PATH
    systemRoot,     \* Option: value of SYSTEMROOT
    fs,             \* set of existing file system entries
    fsKind,         \* what each existing entry is: "exe", "plain" or "dir"
    builder,        \* Option: the PsScriptBuilder, consumed by build
    ps,             \* Option: the PsScript
    pc,             \* position of the calling thread
    script,         \* the script passed to run
    lineIdx,        \* index of the line the for loop is at
    wpos,           \* bytes of the current writeln already in the pipe
    log,            \* steps of run_raw performed so far, in order
    hostStdout,     \* lines printed on the host's standard output
    stdinHandle,    \* whether process.stdin is Some
    childState,     \* "none", "running", "exited"
    childArgv,      \* Option: what the child was started with
    childStatus,    \* exit code of the child
    pendingOut,     \* bytes the child still has to write to stdout
    pendingErr,     \* bytes the child still has to write to stderr
    stdinPipe,      \* bytes in the child's stdin pipe
    stdoutPipe,     \* bytes in the child's stdout pipe
    stderrPipe,     \* bytes in the child's stderr pipe
    stdinOpen,      \* parent's write end of the stdin pipe is open
    readOpen,       \* parent's read ends of stdout and stderr are open
    stdinWritten,   \* every byte the parent put into the stdin pipe
    producedOut,    \* every byte the child wrote to stdout
    producedErr,    \* every byte the child wrote to stderr
    capturedOut,    \* bytes wait_with_output has read from stdout
    capturedErr,    \* bytes wait_with_output has read from stderr
    reaped,         \* the child has been waited on
    result,         \* what run returned
    proc,           \* Option: a process::Output handed to Output::from
    obj,            \* Option: the Output built from it
    view,           \* what the accessors of obj returned
    located         \* Option: what get_powershell_path returned (SpecLocate)

envVars == << platform, pathVar, systemRoot, fs, fsKind >>
cfgVars == << builder, ps >>
hostVars == << pc, script, lineIdx, wpos, log, hostStdout, stdinHandle, result >>
childVars == << childState, childArgv, childStatus, pendingOut, pendingErr >>
pipeVars == << stdinPipe, stdoutPipe, stderrPipe, stdinOpen, readOpen >>
histVars == << stdinWritten, producedOut, producedErr, capturedOut, capturedErr, reaped >>
outVars == << proc, obj, view, located >>
vars == << envVars, cfgVars, hostVars, childVars, pipeVars, histVars, outVars >>

NoView == [ stdout |-> None, stderr |-> None, display |-> None ]

\* directory e holds the interpreter; the fallback executable may exist or not
FileSystems(plat) ==
    LET on_path == { join(<< "e" >>, POWERSHELL_NAME(plat)) }
    IN  { on_path } \cup
        (IF plat = "windows"
         THEN { on_path \cup { join(<< r >>, FALLBACK) } : r \in RootValues }
         ELSE { })

Idle ==
    /\ builder = Some(default)
    /\ ps = None
    /\ script = << >>
    /\ lineIdx = 0
    /\ wpos = 0
    /\ log = << >>
    /\ hostStdout = << >>
    /\ stdinHandle = FALSE
    /\ childState = "none"
    /\ childArgv = None
    /\ childStatus = 0
    /\ pendingOut = << >>
    /\ pendingErr = << >>
    /\ stdinPipe = << >>
    /\ stdoutPipe = << >>
    /\ stderrPipe = << >>
    /\ stdinOpen = FALSE
    /\ readOpen = FALSE
    /\ stdinWritten = << >>
    /\ producedOut = << >>
    /\ producedErr = << >>
    /\ capturedOut = << >>
    /\ capturedErr = << >>
    /\ reaped = FALSE
    /\ result = NoResult
    /\ obj = None
    /\ view = NoView
    /\ located = None

\* PsScriptBuilder::new() in some environment
Init ==
    /\ platform \in Platforms
    /\ pathVar \in { None } \cup { Some(p) : p \in PathValues(platform) }
    /\ systemRoot \in { None } \cup
                      (IF platform = "windows" THEN { Some(<< r >>) : r \in RootValues } ELSE { })
    /\ fs \in FileSystems(platform)
    /\ fsKind = [ p \in fs |-> "exe" ]
    /\ pc = "builder"
    /\ proc = None
    /\ Idle

(***************************************************************************)
(* Builder operations (builder.rs).                                        *)
(***************************************************************************)
runVars == << hostVars, childVars, pipeVars, histVars, outVars >>

no_profile(flag) ==
    /\ pc = "builder"
    /\ builder' = Some([unwrap(builder) EXCEPT !.no_profile = flag])
    /\ UNCHANGED << envVars, ps, runVars >>

non_interactive(flag) ==
    /\ pc = "builder"
    /\ builder' = Some([unwrap(builder) EXCEPT !.non_interactive = flag])
    /\ UNCHANGED << envVars, ps, runVars >>

hidden(flag) ==
    /\ pc = "builder"
    /\ builder' = Some([unwrap(builder) EXCEPT !.hidden = flag])
    /\ UNCHANGED << envVars, ps, runVars >>

print_commands(flag) ==
    /\ pc = "builder"
    /\ builder' = Some([unwrap(builder) EXCEPT !.print_commands = flag])
    /\ UNCHANGED << envVars, ps, runVars >>

Build ==
    /\ pc = "builder"
    /\ ps' = Some(build(unwrap(builder)))
    /\ builder' = None
    /\ pc' = "built"
    /\ UNCHANGED << envVars, script, lineIdx, wpos, log, hostStdout, stdinHandle, result,
                    childVars, pipeVars, histVars, outVars >>

(***************************************************************************)
(* PsScript::run and run_raw, one action per step of the calling thread.   *)
(***************************************************************************)
Step(name, arg) == [ step |-> name, arg |-> arg ]

\* a Child that goes out of scope: its pipe handles are closed, the process
\* is neither killed nor waited on
drop_process ==
    /\ stdinOpen' = FALSE
    /\ readOpen' = FALSE

\* run(&self, script) is called
Run(s) ==
    /\ pc = "built"
    /\ script' = s
    /\ pc' = "locate"
    /\ UNCHANGED << envVars, cfgVars, lineIdx, wpos, log, hostStdout, stdinHandle, result,
                    childVars, pipeVars, histVars, outVars >>

\* Command::new(get_powershell_path()?)
Locate ==
    /\ pc = "locate"
    /\ log' = Append(log, Step("locate", 0))
    /\ LET path == get_powershell_path(platform, pathVar, systemRoot, fs)
       IN  \/ /\ path.tag = "Ok"
              /\ pc' = "spawn"
              /\ result' = result
           \/ /\ path.tag = "Err"
              /\ pc' = "done"
              /\ result' = Err(path.val)
           \/ /\ path.tag = "Panic"
              /\ pc' = "panicked"
              /\ result' = result
    /\ UNCHANGED << envVars, cfgVars, script, lineIdx, wpos, hostStdout, stdinHandle,
                    childVars, pipeVars, histVars, outVars >>

\* cmd.stdin/stdout/stderr(Stdio::piped()); cmd.args(..); creation_flags; cmd.spawn()?
Spawn ==
    /\ pc = "spawn"
    /\ log' = Append(log, Step("spawn", 0))
    /\ \/ /\ childState' = "running"
          /\ childArgv' = Some([ program   |-> get_powershell_path(platform, pathVar,
                                                                    systemRoot, fs).val,
                                 args      |-> unwrap(ps).args,
                                 no_window |-> platform = "windows" /\ unwrap(ps).hidden ])
          /\ stdinHandle' = TRUE      \* stdin is Stdio::piped()
          /\ stdinOpen' = TRUE
          /\ readOpen' = TRUE
          /\ pc' = "stdin"
          /\ result' = result
       \/ /\ pc' = "done"
          /\ result' = Err("Io")
          /\ UNCHANGED << childState, childArgv, stdinHandle, stdinOpen, readOpen >>
    /\ UNCHANGED << envVars, cfgVars, script, lineIdx, wpos, hostStdout,
                    childStatus, pendingOut, pendingErr,
                    stdinPipe, stdoutPipe, stderrPipe, histVars, outVars >>

\* a for loop whose body never prints
for_pc_silent(self, text, idx) == IF idx < Len(lines(text)) THEN "writeln" ELSE "wait"

\* for line in script.lines(): where the thread goes when the iterator is
\* asked for the line after the idx-th, and the index it is then at
for_pc(self, text, idx) ==
    IF idx < Len(lines(text))
    THEN IF self.print_commands THEN "println" ELSE "writeln"
    ELSE "wait"

for_idx(text, idx) == IF idx < Len(lines(text)) THEN idx + 1 ELSE idx

\* process.stdin.as_mut().ok_or(PsError::ChildStdinNotFound)?, then the
\* first turn of the for loop
AcquireStdin ==
    /\ pc = "stdin"
    /\ log' = Append(log, Step("stdin", 0))
    /\ IF stdinHandle
       THEN /\ pc' = for_pc(unwrap(ps), script, lineIdx)
            /\ lineIdx' = for_idx(script, lineIdx)
            /\ UNCHANGED << result, stdinOpen, readOpen >>
       ELSE /\ pc' = "done"
            /\ result' = Err("ChildStdinNotFound")
            /\ lineIdx' = lineIdx
            /\ drop_process
    /\ UNCHANGED << envVars, cfgVars, script, wpos, hostStdout, stdinHandle,
                    childVars, stdinPipe, stdoutPipe, stderrPipe, histVars, outVars >>

\* println!("{}", line)
Println ==
    /\ pc = "println"
    /\ hostStdout' = Append(hostStdout, lines(script)[lineIdx])
    /\ pc' = "writeln"
    /\ UNCHANGED << envVars, cfgVars, script, lineIdx, wpos, log, stdinHandle, result,
                    childVars, pipeVars, histVars, outVars >>

\* writeln!(stdin, "{}", line)?: one more byte enters the pipe when it has room;
\* after the last byte the for loop takes its next turn
WriteByte ==
    /\ pc = "writeln"
    /\ Len(stdinPipe) < StdinCap
    /\ LET bytes == writeln(lines(script)[lineIdx])
       IN  /\ stdinPipe' = Append(stdinPipe, bytes[wpos + 1])
           /\ stdinWritten' = Append(stdinWritten, bytes[wpos + 1])
           /\ IF wpos + 1 = Len(bytes)
              THEN /\ wpos' = 0
                   /\ pc' = for_pc(unwrap(ps), script, lineIdx)
                   /\ lineIdx' = for_idx(script, lineIdx)
              ELSE /\ wpos' = wpos + 1
                   /\ pc' = pc
                   /\ lineIdx' = lineIdx
    /\ log' = IF wpos = 0 THEN Append(log, Step("write", lineIdx)) ELSE log
    /\ UNCHANGED << envVars, cfgVars, script, hostStdout, stdinHandle, result,
                    childVars, stdoutPipe, stderrPipe, stdinOpen, readOpen,
                    producedOut, producedErr, capturedOut, capturedErr, reaped, outVars >>

\* writeln!(stdin, "{}", line)?: the write fails, run_raw returns the error
WriteFail ==
    /\ pc = "writeln"
    /\ log' = IF wpos = 0 THEN Append(log, Step("write", lineIdx)) ELSE log
    /\ pc' = "done"
    /\ result' = Err("Io")
    /\ drop_process
    /\ UNCHANGED << envVars, cfgVars, script, lineIdx, wpos, hostStdout, stdinHandle,
                    childVars, stdinPipe, stdoutPipe, stderrPipe, histVars, outVars >>

\* process.wait_with_output(): drop(self.stdin.take()) comes first
WaitBegin ==
    /\ pc = "wait"
    /\ log' = Append(log, Step("wait", 0))
    /\ stdinOpen' = FALSE
    /\ pc' = "read2"
    /\ UNCHANGED << envVars, cfgVars, script, lineIdx, wpos, hostStdout, stdinHandle, result,
                    childVars, stdinPipe, stdoutPipe, stderrPipe, readOpen, histVars, outVars >>

\* wait_with_output: read2 takes what stdout holds
ReadStdout ==
    /\ pc = "read2"
    /\ stdoutPipe # << >>
    /\ capturedOut' = capturedOut \o stdoutPipe
    /\ stdoutPipe' = << >>
    /\ UNCHANGED << envVars, cfgVars, hostVars, childVars, stdinPipe, stderrPipe,
                    stdinOpen, readOpen, stdinWritten, producedOut, producedErr,
                    capturedErr, reaped, outVars >>

\* wait_with_output: read2 takes what stderr holds
ReadStderr ==
    /\ pc = "read2"
    /\ stderrPipe # << >>
    /\ capturedErr' = capturedErr \o stderrPipe
    /\ stderrPipe' = << >>
    /\ UNCHANGED << envVars, cfgVars, hostVars, childVars, stdinPipe, stdoutPipe,
                    stdinOpen, readOpen, stdinWritten, producedOut, producedErr,
                    capturedOut, reaped, outVars >>

\* wait_with_output: both pipes are at end of file; self.wait()? and the
\* classification of run
WaitExit ==
    /\ pc = "read2"
    /\ childState = "exited"
    /\ stdoutPipe = << >>
    /\ stderrPipe = << >>
    /\ pc' = "done"
    /\ readOpen' = FALSE
    /\ \/ /\ reaped' = TRUE
          /\ result' = run([ status |-> childStatus,
                             stdout |-> capturedOut,
                             stderr |-> capturedErr ])
       \/ /\ reaped' = reaped
          /\ result' = Err("Io")
    /\ UNCHANGED << envVars, cfgVars, script, lineIdx, wpos, log, hostStdout, stdinHandle,
                    childVars, stdinPipe, stdoutPipe, stderrPipe, stdinOpen,
                    stdinWritten, producedOut, producedErr, capturedOut, capturedErr,
                    outVars >>

(***************************************************************************)
(* The child interpreter: reads its stdin byte by byte, answers every      *)
(* complete line with a bounded amount of output, exits at end of input.   *)
(***************************************************************************)
OutByte(i) == IF i % 2 = 1 THEN 104 ELSE 10
OutText(n) == [ i \in 1..n |-> OutByte(i) ]
ErrText(n) == [ i \in 1..n |-> 101 ]

\* what a command may answer: nothing, text on stdout, or text on stderr
Answers ==
    { [ out |-> << >>, err |-> << >> ],
      [ out |-> OutText(MaxOutPerLine), err |-> << >> ],
      [ out |-> << >>, err |-> ErrText(MaxErrPerLine) ] }

ChildRead ==
    /\ childState = "running"
    /\ pendingOut = << >>
    /\ pendingErr = << >>
    /\ stdinPipe # << >>
    /\ stdinPipe' = Tail(stdinPipe)
    /\ IF Head(stdinPipe) = LF
       THEN \E answer \in Answers :
                /\ pendingOut' = answer.out
                /\ pendingErr' = answer.err
       ELSE UNCHANGED << pendingOut, pendingErr >>
    /\ UNCHANGED << envVars, cfgVars, hostVars, childState, childArgv, childStatus,
                    stdoutPipe, stderrPipe, stdinOpen, readOpen, histVars, outVars >>

ChildWriteStdout ==
    /\ childState = "running"
    /\ pendingOut # << >>
    /\ pendingOut' = Tail(pendingOut)
    /\ IF readOpen
       THEN /\ Len(stdoutPipe) < StdoutCap
            /\ stdoutPipe' = Append(stdoutPipe, Head(pendingOut))
            /\ producedOut' = Append(producedOut, Head(pendingOut))
       ELSE UNCHANGED << stdoutPipe, producedOut >>
    /\ UNCHANGED << envVars, cfgVars, hostVars, childState, childArgv, childStatus,
                    pendingErr, stdinPipe, stderrPipe, stdinOpen, readOpen,
                    stdinWritten, producedErr, capturedOut, capturedErr, reaped, outVars >>

ChildWriteStderr ==
    /\ childState = "running"
    /\ pendingErr # << >>
    /\ pendingErr' = Tail(pendingErr)
    /\ IF readOpen
       THEN /\ Len(stderrPipe) < StderrCap
            /\ stderrPipe' = Append(stderrPipe, Head(pendingErr))
            /\ producedErr' = Append(producedErr, Head(pendingErr))
       ELSE UNCHANGED << stderrPipe, producedErr >>
    /\ UNCHANGED << envVars, cfgVars, hostVars, childState, childArgv, childStatus,
                    pendingOut, stdinPipe, stdoutPipe, stdinOpen, readOpen,
                    stdinWritten, producedOut, capturedOut, capturedErr, reaped, outVars >>

ChildExit ==
    /\ childState = "running"
    /\ pendingOut = << >>
    /\ pendingErr = << >>
    /\ stdinPipe = << >>
    /\ ~stdinOpen
    /\ childState' = "exited"
    /\ childStatus' \in {0, 1}
    /\ UNCHANGED << envVars, cfgVars, hostVars, childArgv, pendingOut, pendingErr,
                    pipeVars, histVars, outVars >>

Next ==
    \/ \E flag \in BOOLEAN : no_profile(flag)
    \/ \E flag \in BOOLEAN : non_interactive(flag)
    \/ \E flag \in BOOLEAN : hidden(flag)
    \/ \E flag \in BOOLEAN : print_commands(flag)
    \/ Build
    \/ \E s \in Scripts : Run(s)
    \/ Locate
    \/ Spawn
    \/ AcquireStdin
    \/ Println
    \/ WriteByte
    \/ WriteFail
    \/ WaitBegin
    \/ ReadStdout
    \/ ReadStderr
    \/ WaitExit
    \/ ChildRead
    \/ ChildWriteStdout
    \/ ChildWriteStderr
    \/ ChildExit

Spec == Init /\ [][Next]_vars

(***************************************************************************)
(* Output on its own: any process::Output goes through Output::from and    *)
(* the accessors.                                                          *)
(***************************************************************************)
StdoutBytes == {104, 10, 13, 195, 169, 255}
StderrBytes == {101, 255}
ProcessOutputs ==
    [ status : {0, 1},
      stdout : StringsUpTo(StdoutBytes, MaxCaptureLen),
      stderr : StringsUpTo(StderrBytes, MaxCaptureLen) ]

InitOutput ==
    /\ platform = "unix"
    /\ pathVar = None
    /\ systemRoot = None
    /\ fs = { }
    /\ fsKind = [ p \in fs |-> "exe" ]
    /\ pc = "output"
    /\ proc \in { Some(o) : o \in ProcessOutputs }
    /\ Idle

From ==
    /\ pc = "output"
    /\ obj = None
    /\ obj' = Some(Output_from(unwrap(proc)))
    /\ UNCHANGED << envVars, cfgVars, hostVars, childVars, pipeVars, histVars, proc, view, located >>

CallStdout ==
    /\ IsSome(obj)
    /\ view' = [view EXCEPT !.stdout = Some(Output_stdout(unwrap(obj)))]
    /\ UNCHANGED << envVars, cfgVars, hostVars, childVars, pipeVars, histVars, proc, obj, located >>

CallStderr ==
    /\ IsSome(obj)
    /\ view' = [view EXCEPT !.stderr = Some(Output_stderr(unwrap(obj)))]
    /\ UNCHANGED << envVars, cfgVars, hostVars, childVars, pipeVars, histVars, proc, obj, located >>

CallDisplay ==
    /\ IsSome(obj)
    /\ view' = [view EXCEPT !.display = Some(Output_fmt(unwrap(obj)))]
    /\ UNCHANGED << envVars, cfgVars, hostVars, childVars, pipeVars, histVars, proc, obj, located >>

NextOutput == From \/ CallStdout \/ CallStderr \/ CallDisplay

SpecOutput == InitOutput /\ [][NextOutput]_vars

(***************************************************************************)
(* Vocabulary of the properties.                                           *)
(***************************************************************************)
Range(s) == { s[i] : i \in 1..Len(s) }
IsPrefix(s, u) == Len(s) <= Len(u) /\ SubSeq(u, 1, Len(s)) = s

Returned == pc = "done"
Ended == pc \in { "done", "panicked" }
Spawned == childState # "none"
LastStep == log[Len(log)].step
Did(name) == \E i \in 1..Len(log) : log[i].step = name
Writes == { i \in 1..Len(log) : log[i].step = "write" }

\* the steps of a run that meets no failure
AllSteps(text) ==
    << Step("locate", 0), Step("spawn", 0), Step("stdin", 0) >>
    \o [ i \in 1..Len(lines(text)) |-> Step("write", i) ]
    \o << Step("wait", 0) >>

\* the directories PATH lists (none when PATH is not set) and whether one of
\* them holds the interpreter
PathDirs == IF IsSome(pathVar) THEN Range(split(unwrap(pathVar), PATH_SPLITTER(platform))) ELSE { }
OnPath == \E d \in PathDirs : join(d, POWERSHELL_NAME(platform)) \in fs
FallbackThere == IsSome(systemRoot) /\ join(unwrap(systemRoot), FALLBACK) \in fs

(***************************************************************************)
(* C1: every run performs locate, spawn, stdin, the line writes and wait   *)
(* in that order, each at most once, and the first step that fails decides *)
(* the outcome: locate -> PowershellNotFound, spawn -> Io, stdin ->        *)
(* ChildStdinNotFound, a line write -> Io, wait -> Io; nothing follows the *)
(* failing step.                                                           *)
(***************************************************************************)
C1_FirstFailureDecides ==
    /\ IsPrefix(log, AllSteps(script))
    /\ (Ended /\ log # AllSteps(script)) =>
          /\ LastStep = "locate" => result.kind = "PowershellNotFound"
          /\ LastStep = "spawn" => result.kind = "Io"
          /\ LastStep = "stdin" => result.kind = "ChildStdinNotFound"
          /\ LastStep = "write" => result.kind = "Io"
    /\ (Ended /\ log = AllSteps(script)) => result.kind \in { "Ok", "Powershell", "Io" }

\* the same statement for the runs in which PATH is set
C1_FirstFailureDecidesWithPath == IsSome(pathVar) => C1_FirstFailureDecides

(***************************************************************************)
(* C2: when no PATH directory holds the interpreter (and, on Windows,      *)
(* SYSTEMROOT is unset or the fallback executable is missing) run returns  *)
(* PowershellNotFound and spawns no child.                                 *)
(***************************************************************************)
C2_NotFoundNeverSpawns ==
    (Ended /\ ~OnPath /\ (platform = "windows" => ~FallbackThere)) =>
        /\ result.kind = "PowershellNotFound"
        /\ ~Spawned
        /\ ~Did("spawn")

\* the same statement for the runs in which PATH is set
C2_NotFoundNeverSpawnsWithPath == IsSome(pathVar) => C2_NotFoundNeverSpawns

(***************************************************************************)
(* C3: with PATH not set the PATH search counts as "not found": on unix    *)
(* run returns PowershellNotFound, on Windows the locator goes on to the   *)
(* SYSTEMROOT fallback; the run never panics.                              *)
(***************************************************************************)
C3_AbsentPathIsNotFound ==
    (~IsSome(pathVar) /\ Did("locate")) =>
        /\ pc # "panicked"
        /\ (platform = "unix" \/ ~FallbackThere) => (Returned /\ result.kind = "PowershellNotFound")
        /\ (platform = "windows" /\ FallbackThere) => result.kind # "PowershellNotFound"

(***************************************************************************)
(* C4: after a spawn, a complete feed and a wait without I/O error, run    *)
(* returns Ok(Output) exactly when the exit status is success and          *)
(* Err(Powershell(Output)) otherwise; either Output carries the stdout and *)
(* stderr the child produced, and it exists only once the child has exited.*)
(***************************************************************************)
C4_ExitStatusDecides ==
    /\ (Returned /\ reaped) =>
          /\ (result.kind = "Ok") <=> (childStatus = 0)
          /\ (result.kind = "Powershell") <=> (childStatus # 0)
          /\ IsSome(result.output)
          /\ unwrap(result.output).inner.stdout = producedOut
          /\ unwrap(result.output).inner.stderr = producedErr
          /\ unwrap(result.output).inner.status = childStatus
    /\ IsSome(result.output) =>
          /\ Returned /\ reaped
          /\ childState = "exited"
          /\ stdoutPipe = << >> /\ stderrPipe = << >>

C4_FailedScriptKeepsOutput ==
    /\ Returned
    /\ result.kind = "Powershell"
    /\ producedOut # << >>
    /\ producedErr # << >>

(***************************************************************************)
(* C5: on every return of run after a successful spawn, the early failures *)
(* included, the child's pipe handles are closed and the child has been    *)
(* waited on.                                                              *)
(***************************************************************************)
C5_ChildReapedOnReturn ==
    (Returned /\ Spawned) => (reaped /\ ~stdinOpen /\ ~readOpen)

(***************************************************************************)
(* C6: the child's stdin receives every line of the script, in order, each *)
(* followed by one newline, and nothing else; after the last line the      *)
(* stream is closed, before the engine blocks waiting for the exit; for an *)
(* empty script nothing is written and the stream is still closed.         *)
(***************************************************************************)
RECURSIVE Flatten(_)
Flatten(ls) == IF ls = << >> THEN << >> ELSE Head(ls) \o << LF >> \o Flatten(Tail(ls))

ExpectedStdin == Flatten(lines(script))
Waiting == pc = "read2"

Echo == IsSome(ps) /\ unwrap(ps).print_commands

\* for every return of run
C7_EveryLineEchoed ==
    /\ (Returned /\ Echo) => hostStdout = lines(script)
    /\ ~Echo => hostStdout = << >>

\* the lines whose forwarding was begun, all of them once run waits
C7_EchoedBeforeForwarded ==
    /\ ~Echo => hostStdout = << >>
    /\ Echo =>
          /\ IsPrefix(hostStdout, lines(script))
          /\ \A i \in Writes : log[i].arg <= Len(hostStdout)
          /\ Len(stdinWritten) > 0 => Len(hostStdout) > 0
          /\ Len(hostStdout) \in { Cardinality(Writes), Cardinality(Writes) + 1 }
          /\ Returned => Len(hostStdout) = Cardinality(Writes)
          /\ (Did("wait") \/ result.kind \in { "Ok", "Powershell" }) =>
                 hostStdout = lines(script)

C7_TwoLinesEchoed ==
    /\ Echo
    /\ Returned
    /\ result.kind = "Ok"
    /\ Len(hostStdout) = 2

(***************************************************************************)
(* C8: whatever no_profile and non_interactive were set to, build() gives  *)
(* an argument list that ends in "-Command", "-", holds "-NoProfile" iff   *)
(* no_profile and "-NonInteractive" iff non_interactive, both before       *)
(* "-Command", and "-NoProfile" before "-NonInteractive" when both are on. *)
(***************************************************************************)
ArgsFollow(b, args) ==
    LET n == Len(args)
        at(flag) == { i \in 1..n : args[i] = flag }
    IN  /\ n >= 2
        /\ args[n - 1] = "-Command"
        /\ args[n] = "-"
        /\ (at("-NoProfile") # { }) <=> b.no_profile
        /\ (at("-NonInteractive") # { }) <=> b.non_interactive
        /\ \A i \in at("-NoProfile") \cup at("-NonInteractive") : i < n - 1
        /\ \A i \in at("-NoProfile") : \A j \in at("-NonInteractive") : i < j
        /\ n = 2 + Cardinality(at("-NoProfile")) + Cardinality(at("-NonInteractive"))

C8_FlagsBeforeCommand ==
    [][(pc = "builder" /\ pc' = "built") => ArgsFollow(unwrap(builder), unwrap(ps').args)]_vars

C8_BothFlagsBuilt ==
    /\ IsSome(ps)
    /\ unwrap(ps).args = << "-NoProfile", "-NonInteractive", "-Command", "-" >>

(***************************************************************************)
(* C9: stdout() (and stderr()) is None exactly when the capture is empty,  *)
(* never Some of an empty string, and otherwise the captured text itself,  *)
(* nothing trimmed and nothing added.                                      *)
(***************************************************************************)
\* UTF-8 of a code point below U+0800
Utf8(c) == IF c < 128 THEN << c >> ELSE << 192 + (c \div 64), 128 + (c % 64) >>

RECURSIVE Encode(_)
Encode(text) == IF text = << >> THEN << >> ELSE Utf8(Head(text)) \o Encode(Tail(text))

Reads(got, capture) ==
    IsSome(got) =>
        LET r == unwrap(got)
        IN  /\ (r = None) <=> (capture = << >>)
            /\ r # Some(<< >>)
            /\ IsSome(r) =>
                  \/ Encode(unwrap(r)) = capture
                  \/ /\ REPLACEMENT \in Range(unwrap(r))
                     /\ \E i \in 1..Len(capture) : capture[i] >= 128
                     /\ Len(unwrap(r)) <= Len(capture)

C9_AccessorsGiveCapture ==
    IsSome(proc) =>
        /\ Reads(view.stdout, unwrap(proc).stdout)
        /\ Reads(view.stderr, unwrap(proc).stderr)

C9_TextWithTerminator ==
    /\ view.stdout = Some(Some(<< 104, 10 >>))
    /\ view.stderr = Some(None)

(***************************************************************************)
(* C10: with a child that reads every line, answers each with a bounded    *)
(* amount of output and exits at end of input, the parent is never blocked *)
(* writing to a full stdin pipe while the child is blocked writing to a    *)
(* full stdout or stderr pipe.                                             *)
(***************************************************************************)
ParentBlocked == pc = "writeln" /\ Len(stdinPipe) >= StdinCap
ChildBlocked ==
    /\ childState = "running"
    /\ readOpen
    /\ \/ pendingOut # << >> /\ pendingErr = << >> /\ Len(stdoutPipe) >= StdoutCap
       \/ pendingErr # << >> /\ pendingOut = << >> /\ Len(stderrPipe) >= StderrCap

C10_NoPipeDeadlock == ~(ParentBlocked /\ ChildBlocked)

(***************************************************************************)
(* The locator on its own: get_powershell_path in any environment.         *)
(***************************************************************************)
PathChars == { "e", ":", ";" }
EntryKinds == { "exe", "plain", "dir" }

\* entries a PATH directory, the working directory or the system root may hold
Entries(plat) ==
    { join(<< "e" >>, POWERSHELL_NAME(plat)), join(<< >>, POWERSHELL_NAME(plat)) }
    \cup (IF plat = "windows" THEN { join(<< r >>, FALLBACK) : r \in RootValues } ELSE { })

InitLocate ==
    /\ platform \in Platforms
    /\ pathVar \in { None } \cup { Some(p) : p \in StringsUpTo(PathChars, MaxPathLen) }
    /\ systemRoot \in { None } \cup
                      (IF platform = "windows" THEN { Some(<< r >>) : r \in RootValues } ELSE { })
    /\ fs \in SUBSET Entries(platform)
    /\ fsKind \in [ fs -> EntryKinds ]
    /\ pc = "locator"
    /\ proc = None
    /\ Idle

CallLocate ==
    /\ pc = "locator"
    /\ located = None
    /\ located' = Some(get_powershell_path(platform, pathVar, systemRoot, fs))
    /\ UNCHANGED << envVars, cfgVars, hostVars, childVars, pipeVars, histVars, proc, obj, view >>

NextLocate == CallLocate

SpecLocate == InitLocate /\ [][NextLocate]_vars

(***************************************************************************)
(* C11: the locator's strategies in order, the first success wins: an      *)
(* entry of the interpreter's name in any PATH directory, whatever kind of *)
(* entry, gives the bare name, even when the Windows fallback exists; only *)
(* when PATH holds none, and only on Windows, an existing                  *)
(* <SYSTEMROOT>\System32\WindowsPowerShell\v1.0\powershell.exe gives that  *)
(* full path; every other case fails with PowershellNotFound.              *)
(***************************************************************************)
BareName == join(<< >>, POWERSHELL_NAME(platform))
UseFallback == ~OnPath /\ platform = "windows" /\ FallbackThere

C11_FirstStrategyWins ==
    IsSome(located) =>
        LET r == unwrap(located)
        IN  /\ OnPath => (r.tag = "Ok" /\ r.val = BareName)
            /\ UseFallback => (r.tag = "Ok" /\ r.val = join(unwrap(systemRoot), FALLBACK))
            /\ (~OnPath /\ ~UseFallback) => (r.tag = "Err" /\ r.val = "PowershellNotFound")

\* the same statement for the environments in which PATH is set
C11_FirstStrategyWinsWithPath == IsSome(pathVar) => C11_FirstStrategyWins

====
